---- MODULE Spec2Model ----
(***************************************************************************)
(* donkeytype: the timed typing test.                                      *)
(*                                                                         *)
(* Strings are sequences of Unicode scalar values (code points).  A Rust   *)
(* String is UTF-8: `len()` counts bytes, `chars().count()` counts scalar   *)
(* values, and slicing is by byte offset.  Both views are modelled, so a   *)
(* place of the code that mixes them up shows in the model.                *)
(*                                                                         *)
(* Time is counted in whole seconds (the tick rate of the control loop).   *)
(***************************************************************************)
EXTENDS Integers, Sequences, FiniteSets, TLC

VARIABLES
    corpus,                      \* ExpectedInput.str
    duration,                    \* config.duration, seconds
    input,                       \* Runner.input
    input_mode,                  \* Runner.input_mode: "Normal" | "Editing"
    is_started,                  \* Runner.is_started
    raw_mistakes_count,          \* Runner.raw_mistakes_count
    raw_valid_characters_count,  \* Runner.raw_valid_characters_count
    start_time,                  \* local of Runner::run
    pause_time,                  \* local of Runner::run
    last_tick,                   \* local of Runner::run
    time_left,                   \* local of Runner::run, handed to render
    poll_deadline,               \* the instant at which event::poll(timeout) gives up
    pc,                          \* "loop" | "poll" | "returned"
    result,                      \* the TestResults returned by Runner::run, or NoResult
    now,                         \* the clock (Instant::now())
    running_time,                \* history: seconds spent in Editing mode so far
    last_event,                  \* history: the event handled by the last poll, or NoEvent
    at_pause,                    \* history: input and raw counters when Esc was last handled
    paused_time,                 \* history: seconds spent paused since the test was started
    chars_processed,             \* history: presses handled by the KeyCode::Char(c) branch
    gs_len,                      \* argument of the get_string call under test
    gs_out,                      \* its result
    gs_len2,                     \* argument of a second get_string call
    gs_out2,                     \* its result
    frame_width,                 \* frame.size().width of the render call under test
    layout,                      \* the three slices computed by render
    dictionary,                  \* the dictionary of the config: built in, or a file
    flags,                       \* the options of the config read by ExpectedInput::new
    string_vec,                  \* local of ExpectedInput::new: the words
    words_start_pos,             \* local of ExpectedInput::new
    boot_pc,                     \* the position of main and of ExpectedInput::new
    new_result,                  \* what ExpectedInput::new has returned, or NoReturn
    terminal_entered,            \* configure_terminal has put the terminal in raw mode
    runner_created,              \* Runner::new has been called
    save_results,                \* config.save_results
    outcome                      \* what main did with the value of run, or NoOutcome

vars == <<corpus, duration, input, input_mode, is_started, raw_mistakes_count,
          raw_valid_characters_count, start_time, pause_time, last_tick, time_left,
          poll_deadline, pc, result, now, running_time, last_event, at_pause,
          paused_time, chars_processed, gs_len, gs_out, gs_len2, gs_out2,
          frame_width, layout, dictionary, flags, string_vec, words_start_pos,
          boot_pc, new_result, terminal_entered, runner_created, save_results,
          outcome>>

sessionVars == <<input_mode, is_started, raw_mistakes_count,
                 raw_valid_characters_count, start_time, pause_time, last_tick,
                 time_left, poll_deadline, pc, result, now, running_time,
                 last_event, at_pause, paused_time, chars_processed>>

getStringVars == <<gs_len, gs_out, gs_len2, gs_out2>>

layoutVars == <<frame_width, layout>>

mainVars == <<save_results, outcome>>

startupVars == <<dictionary, flags, string_vec, words_start_pos, boot_pc, new_result,
                 terminal_entered, runner_created, mainVars>>

----------------------------------------------------------------------------
(* Bounds of the model *)

MaxTime == 2        \* the clock stops here unless a started test is running
MaxDuration == 1    \* config.duration ranges over 0..MaxDuration
MaxKeys == 2        \* printable characters processed in one session
MaxLen == 11        \* lengths asked of get_string
MaxWidth == 3       \* frame widths of the render calls
MaxHeight == 3      \* frame heights of the render calls, from 2
MaxTyped == 7       \* input lengths of the render calls
MaxEdit == 3        \* input lengths of the tests that start as typed text
MaxEditDuration == 2   \* config.duration of those tests ranges over 0..MaxEditDuration
MaxWords == 2       \* lines of a dictionary file

----------------------------------------------------------------------------
(* Characters *)

CharSpace == 32
CharE == 101
CharH == 104
CharQ == 113
CharS == 115
CharW == 119
CharBen == 1330     \* the Armenian capital letter of the non-ASCII tests, two bytes
CharIdeographicSpace == 12288   \* a whitespace character that is not ' ', three bytes
CharNewline == 10
CharBang == 33      \* '!'
CharAt == 64        \* '@'
CharZero == 48
CharNine == 57
CharUpperS == 83
CharEszett == 223   \* the small sharp s: two bytes, its uppercase is the two letters "SS"

U16 == 65536        \* the range of `as u16`

TickRate == 1

\* char::len_utf8
Utf8Len(c) ==
    IF c < 128 THEN 1 ELSE IF c < 2048 THEN 2 ELSE IF c < 65536 THEN 3 ELSE 4

\* char::is_whitespace (the Unicode White_Space property)
IsWhitespace(c) ==
    c \in (9..13) \cup {32, 133, 160, 5760, 8232, 8233, 8239, 8287, 12288}
        \cup (8192..8202)

\* str::len: the length in bytes, counted as the bytes <<i, b>> of the string,
\* b the number of the byte within the character at index i
ByteLen(s) ==
    Cardinality({p \in (1..Len(s)) \X (1..4) : p[2] <= Utf8Len(s[p[1]])})

\* str::chars().count()
CharsCount(s) == Len(s)

\* helpers::split_by_char_index: char_indices().nth(char_index) is the byte offset
\* at which the character of that index starts, so the two slices are the first
\* char_index characters and the rest; past the end, the whole string and ""
split_by_char_index(string, char_index) ==
    IF char_index < CharsCount(string)
    THEN <<SubSeq(string, 1, char_index), SubSeq(string, char_index + 1, Len(string))>>
    ELSE <<string, <<>>>>

\* str::repeat
repeat(s, n) == [i \in 1..(n * Len(s)) |-> s[((i - 1) % Len(s)) + 1]]

\* get_string repeating the padded corpus one time too few
get_string_short(str, len) ==
    LET s == str \o <<CharSpace>>
        r == repeat(s, len \div CharsCount(s))
    IN  split_by_char_index(r, len)[1]

\* get_string repeating the corpus without the separating space
get_string_unpadded(str, len) ==
    LET r == repeat(str, len + 1)
    IN  split_by_char_index(r, len)[1]

\* get_string padding after the repetition instead of before it
get_string_pad_after(str, len) ==
    LET s == str \o <<CharSpace>>
        r == repeat(str, (len \div CharsCount(s)) + 1) \o repeat(<<CharSpace>>, len + 1)
    IN  split_by_char_index(r, len)[1]

\* ExpectedInput::get_string
get_string(str, len) ==
    LET s == str \o <<CharSpace>>
        r == repeat(s, (len \div CharsCount(s)) + 1)
    IN  split_by_char_index(r, len)[1]

----------------------------------------------------------------------------
(* Runner: the helpers of the key handler and the statistics *)

RECURSIVE split_whitespace(_)
\* str::split_whitespace: the maximal runs of non-whitespace characters
split_whitespace(s) ==
    IF s = <<>> THEN <<>>
    ELSE IF IsWhitespace(Head(s)) THEN split_whitespace(Tail(s))
    ELSE LET n == CHOOSE n \in 1..Len(s) :
                      /\ \A i \in 1..n : ~IsWhitespace(s[i])
                      /\ n = Len(s) \/ IsWhitespace(s[n + 1])
         IN  <<SubSeq(s, 1, n)>> \o split_whitespace(SubSeq(s, n + 1, Len(s)))

RECURSIVE join(_, _)
\* [&str]::join
join(words, sep) ==
    IF words = <<>> THEN <<>>
    ELSE IF Len(words) = 1 THEN words[1]
    ELSE words[1] \o sep \o join(Tail(words), sep)

\* Vec::pop, as used on the list of words
pop(v) == IF v = <<>> THEN v ELSE SubSeq(v, 1, Len(v) - 1)

\* remove_last_word with the space pushed whether or not a word remains
remove_last_word_always_space(in) ==
    Append(join(pop(split_whitespace(in)), <<CharSpace>>), CharSpace)

\* remove_last_word without the space pushed after the words that remain
remove_last_word_nospace(in) ==
    join(pop(split_whitespace(in)), <<CharSpace>>)

\* Runner::remove_last_word
remove_last_word(in) ==
    LET words == pop(split_whitespace(in))
        joined == join(words, <<CharSpace>>)
    IN  IF joined # <<>> THEN Append(joined, CharSpace) ELSE joined

\* Duration::checked_sub(..).unwrap_or(Duration::from_secs(0))
checked_sub_or_zero(a, b) == IF a >= b THEN a - b ELSE 0

\* Instant::elapsed
elapsed(t) == now - t

\* get_percentage without the test for a zero denominator
get_percentage_unguarded(numerator, denominator) ==
    [num |-> numerator * 100, den |-> denominator]

\* get_percentage, the value kept as the fraction num/den of the f64 result
get_percentage(numerator, denominator) ==
    IF denominator = 0 THEN [num |-> 0, den |-> 1]
    ELSE [num |-> numerator * 100, den |-> denominator]

\* Stats::default
Stats_default ==
    [wpm |-> [num |-> 0, den |-> 1],
     raw_accuracy |-> [num |-> 0, den |-> 1],
     raw_valid_characters_count |-> 0,
     raw_mistakes_count |-> 0,
     raw_typed_characters_count |-> 0,
     accuracy |-> [num |-> 0, den |-> 1],
     valid_characters_count |-> 0,
     mistakes_count |-> 0,
     typed_characters_count |-> 0]

\* get_stats counting the bytes of the input for its characters
get_stats_bytes(in, str, raw_valid, raw_mistakes, dur) ==
    LET typed_characters_count == ByteLen(in)
        expected_input_str == get_string(str, typed_characters_count)
        zipped == 1..(IF Len(in) < Len(expected_input_str)
                      THEN Len(in) ELSE Len(expected_input_str))
        mistakes_count == Cardinality({i \in zipped : in[i] # expected_input_str[i]})
        valid_characters_count == typed_characters_count - mistakes_count
    IN  [wpm |-> [num |-> valid_characters_count * 60, den |-> 5 * dur],
         raw_accuracy |-> get_percentage(raw_valid, raw_valid + raw_mistakes),
         raw_valid_characters_count |-> raw_valid,
         raw_mistakes_count |-> raw_mistakes,
         raw_typed_characters_count |-> raw_valid + raw_mistakes,
         accuracy |-> get_percentage(typed_characters_count - mistakes_count,
                                     typed_characters_count),
         valid_characters_count |-> valid_characters_count,
         mistakes_count |-> mistakes_count,
         typed_characters_count |-> typed_characters_count]

\* get_stats taking the speed from all the characters of the input, right or wrong
get_stats_typed_wpm(in, str, raw_valid, raw_mistakes, dur) ==
    LET typed_characters_count == CharsCount(in)
        expected_input_str == get_string(str, typed_characters_count)
        zipped == 1..(IF Len(in) < Len(expected_input_str)
                      THEN Len(in) ELSE Len(expected_input_str))
        mistakes_count == Cardinality({i \in zipped : in[i] # expected_input_str[i]})
        valid_characters_count == typed_characters_count - mistakes_count
    IN  [wpm |-> [num |-> typed_characters_count * 60, den |-> 5 * dur],
         raw_accuracy |-> get_percentage(raw_valid, raw_valid + raw_mistakes),
         raw_valid_characters_count |-> raw_valid,
         raw_mistakes_count |-> raw_mistakes,
         raw_typed_characters_count |-> raw_valid + raw_mistakes,
         accuracy |-> get_percentage(typed_characters_count - mistakes_count,
                                     typed_characters_count),
         valid_characters_count |-> valid_characters_count,
         mistakes_count |-> mistakes_count,
         typed_characters_count |-> typed_characters_count]

\* get_stats taking the raw number of typed characters from the final input
get_stats_raw_final(in, str, raw_valid, raw_mistakes, dur) ==
    LET typed_characters_count == CharsCount(in)
        expected_input_str == get_string(str, typed_characters_count)
        zipped == 1..(IF Len(in) < Len(expected_input_str)
                      THEN Len(in) ELSE Len(expected_input_str))
        mistakes_count == Cardinality({i \in zipped : in[i] # expected_input_str[i]})
        valid_characters_count == typed_characters_count - mistakes_count
    IN  [wpm |-> [num |-> valid_characters_count * 60, den |-> 5 * dur],
         raw_accuracy |-> get_percentage(raw_valid, raw_valid + raw_mistakes),
         raw_valid_characters_count |-> raw_valid,
         raw_mistakes_count |-> raw_mistakes,
         raw_typed_characters_count |-> typed_characters_count,
         accuracy |-> get_percentage(typed_characters_count - mistakes_count,
                                     typed_characters_count),
         valid_characters_count |-> valid_characters_count,
         mistakes_count |-> mistakes_count,
         typed_characters_count |-> typed_characters_count]

\* Runner::get_stats
get_stats(in, str, raw_valid, raw_mistakes, dur) ==
    LET typed_characters_count == CharsCount(in)
        expected_input_str == get_string(str, typed_characters_count)
        zipped == 1..(IF Len(in) < Len(expected_input_str)
                      THEN Len(in) ELSE Len(expected_input_str))
        mistakes_count == Cardinality({i \in zipped : in[i] # expected_input_str[i]})
        valid_characters_count == typed_characters_count - mistakes_count
    IN  [wpm |-> [num |-> valid_characters_count * 60, den |-> 5 * dur],
         raw_accuracy |-> get_percentage(raw_valid, raw_valid + raw_mistakes),
         raw_valid_characters_count |-> raw_valid,
         raw_mistakes_count |-> raw_mistakes,
         raw_typed_characters_count |-> raw_valid + raw_mistakes,
         accuracy |-> get_percentage(typed_characters_count - mistakes_count,
                                     typed_characters_count),
         valid_characters_count |-> valid_characters_count,
         mistakes_count |-> mistakes_count,
         typed_characters_count |-> typed_characters_count]

\* TestResults::new: the statistics, the duration of the config, the completion flag
TestResults_new(stats, dur, completed) ==
    [stats |-> stats, duration |-> dur, completed |-> completed,
     save |-> save_results]

\* the classification of a pressed character in Runner::run: the character just
\* pushed against the last character of get_string(self.input.len())
is_correct(in, str) ==
    LET expected_input == get_string(str, ByteLen(in))
    IN  /\ expected_input # <<>>
        /\ in[Len(in)] = expected_input[Len(expected_input)]

----------------------------------------------------------------------------
(* The events read by the control loop *)

NoEvent == [kind |-> "None"]
NoResult == [none |-> TRUE]
NoSnapshot == [none |-> TRUE]

KeyPress(code, ch, ctrl, alt) ==
    [kind |-> "Press", code |-> code, ch |-> ch, ctrl |-> ctrl, alt |-> alt]

TypedChars == {CharSpace, CharQ, CharS, CharBen}

Events ==
    {KeyPress("Char", c, FALSE, FALSE) : c \in TypedChars}
    \cup {KeyPress("Char", c, TRUE, FALSE) : c \in {CharH, CharW}}
    \cup {KeyPress("Backspace", 0, ctrl, alt) : ctrl \in BOOLEAN, alt \in BOOLEAN}
    \cup {KeyPress("Esc", 0, FALSE, FALSE), KeyPress("Enter", 0, FALSE, FALSE)}
    \cup {[kind |-> "Release", code |-> "Char", ch |-> CharS, ctrl |-> FALSE, alt |-> FALSE],
          [kind |-> "Resize", code |-> "None", ch |-> 0, ctrl |-> FALSE, alt |-> FALSE]}

IsPress(ev) == ev.kind = "Press"

\* `KeyCode::Char('h') | KeyCode::Char('w') if CONTROL` and
\* `KeyCode::Backspace if ALT | CONTROL`
IsWordDelete(ev) ==
    \/ ev.code = "Char" /\ ev.ch \in {CharH, CharW} /\ ev.ctrl
    \/ ev.code = "Backspace" /\ (ev.alt \/ ev.ctrl)

Corpora == {<<>>, <<CharBen, CharS>>, <<CharQ, CharSpace, CharS>>}

----------------------------------------------------------------------------
(* The start of the program: what main and ExpectedInput::new leave behind  *)
(* once a Runner runs                                                       *)

NoReturn == [kind |-> "None"]
Ok(str) == [kind |-> "Ok", str |-> str]
Err(context) == [kind |-> "Err", context |-> context]
Panic(message) == [kind |-> "Panic", message |-> message]

\* Config::default for the options read by ExpectedInput::new, ratios as
\* fractions; `build` is the profile of the binary: overflow checks on (debug)
\* or off (release)
DefaultFlags ==
    [numbers |-> FALSE, numbers_ratio |-> [num |-> 1, den |-> 20],
     uppercase |-> FALSE, uppercase_ratio |-> [num |-> 3, den |-> 20],
     symbols |-> FALSE, symbols_ratio |-> [num |-> 1, den |-> 5],
     build |-> "release"]

\* a dictionary file, one word per line, from which ExpectedInput::new makes
\* the corpus `str` (in some order of its words)
DictionaryOf(str) ==
    [kind |-> "file",
     text |-> [i \in 1..Len(str) |-> IF str[i] = CharSpace THEN CharNewline ELSE str[i]]]

\* main has reached app.run with a Runner over `corpus`
NoOutcome == [kind |-> "None"]

\* what main has done by the time it returns: the calls it made and its value
Exit(rendered, saved, shown, ret) ==
    [kind |-> "Exit", rendered |-> rendered, saved |-> saved, shown |-> shown,
     ret |-> ret]

\* the Runner is constructed and run has been entered
InitConstructed ==
    /\ dictionary = DictionaryOf(corpus)
    /\ flags = DefaultFlags
    /\ string_vec = <<>>
    /\ words_start_pos = 0
    /\ boot_pc = "run"
    /\ new_result = Ok(corpus)
    /\ terminal_entered = TRUE
    /\ runner_created = TRUE
    /\ outcome = NoOutcome

\* the same under the default of config.save_results
InitBooted ==
    /\ InitConstructed
    /\ save_results = TRUE

----------------------------------------------------------------------------
(* Runner::run, the control loop.                                          *)
(* pc = "loop": at the top of an iteration.  pc = "poll": the frame is     *)
(* drawn and the loop is blocked in event::poll(timeout).                   *)

InitSession ==
    /\ input = <<>>
    /\ input_mode = "Normal"
    /\ is_started = FALSE
    /\ raw_mistakes_count = 0
    /\ raw_valid_characters_count = 0
    /\ now = 0
    /\ start_time = 0
    /\ pause_time = 0
    /\ last_tick = 0
    /\ time_left = 0
    /\ poll_deadline = 0
    /\ pc = "loop"
    /\ result = NoResult
    /\ running_time = 0
    /\ last_event = NoEvent
    /\ at_pause = NoSnapshot
    /\ paused_time = 0
    /\ chars_processed = 0

InitGetString ==
    /\ gs_len = 0
    /\ gs_out = <<>>
    /\ gs_len2 = 0
    /\ gs_out2 = <<>>

NoLayout == [already_typed |-> <<>>, current_line_rest |-> <<>>, following_lines |-> <<>>]

InitLayout ==
    /\ frame_width = 1
    /\ layout = NoLayout

Init ==
    /\ corpus \in Corpora
    /\ duration \in 0..MaxDuration
    /\ InitSession
    /\ InitGetString
    /\ InitLayout
    /\ InitBooted

\* the timeout check made in whatever mode the test is
TimedOut_anymode ==
    /\ is_started
    /\ elapsed(start_time) >= duration

\* the timeout check missing the instant at which the time is exactly up
TimedOut_strict ==
    /\ input_mode = "Editing"
    /\ is_started
    /\ elapsed(start_time) > duration

\* the timeout check at the top of the loop
TimedOut ==
    /\ input_mode = "Editing"
    /\ is_started
    /\ elapsed(start_time) >= duration

\* the remaining time of a paused test computed as it is for a running one
TimeLeft_paused ==
    IF input_mode = "Normal" /\ ~is_started
    THEN duration
    ELSE checked_sub_or_zero(duration, elapsed(start_time))

\* the remaining time handed to render
TimeLeft ==
    IF input_mode = "Normal"
    THEN IF ~is_started
         THEN duration
         ELSE checked_sub_or_zero(duration,
                  checked_sub_or_zero(elapsed(start_time), elapsed(pause_time)))
    ELSE checked_sub_or_zero(duration, elapsed(start_time))

\* `if last_tick.elapsed() >= tick_rate { last_tick = Instant::now(); }`
EndOfIteration ==
    /\ last_tick' = IF elapsed(last_tick) >= TickRate THEN now ELSE last_tick
    /\ pc' = "loop"

\* the time is up: run returns the results of a completed test
Finish ==
    /\ pc = "loop"
    /\ TimedOut
    /\ result' = TestResults_new(
                     get_stats(input, corpus, raw_valid_characters_count,
                               raw_mistakes_count, duration),
                     duration, TRUE)
    /\ pc' = "returned"
    /\ UNCHANGED <<corpus, duration, input, input_mode, is_started, raw_mistakes_count,
                   raw_valid_characters_count, start_time, pause_time, last_tick,
                   time_left, poll_deadline, now, running_time, last_event, at_pause,
                   paused_time, chars_processed,
                   getStringVars, layoutVars, startupVars>>

\* the time is not up: the frame is drawn and the loop polls for an event
Draw ==
    /\ pc = "loop"
    /\ ~TimedOut
    /\ time_left' = TimeLeft
    /\ poll_deadline' = now + checked_sub_or_zero(TickRate, elapsed(last_tick))
    /\ last_event' = NoEvent
    /\ pc' = "poll"
    /\ UNCHANGED <<corpus, duration, input, input_mode, is_started, raw_mistakes_count,
                   raw_valid_characters_count, start_time, pause_time, last_tick,
                   result, now, running_time, at_pause, paused_time, chars_processed,
                   getStringVars, layoutVars, startupVars>>

\* a wait for the next event with no timeout, as a bare event::read() is
PollTimeout_blocking ==
    /\ pc = "poll"
    /\ FALSE
    /\ EndOfIteration
    /\ UNCHANGED <<corpus, duration, input, input_mode, is_started, raw_mistakes_count,
                   raw_valid_characters_count, start_time, pause_time, time_left,
                   poll_deadline, result, now, running_time, last_event, at_pause,
                   paused_time, chars_processed,
                   getStringVars, layoutVars, startupVars>>

\* event::poll returns false: no event within the timeout
PollTimeout ==
    /\ pc = "poll"
    /\ now >= poll_deadline
    /\ EndOfIteration
    /\ UNCHANGED <<corpus, duration, input, input_mode, is_started, raw_mistakes_count,
                   raw_valid_characters_count, start_time, pause_time, time_left,
                   poll_deadline, result, now, running_time, last_event, at_pause,
                   paused_time, chars_processed,
                   getStringVars, layoutVars, startupVars>>

\* an event that is not a key press, or a key no branch of the mode handles
Ignored(ev) ==
    \/ ~IsPress(ev)
    \/ input_mode = "Normal" /\ ~(ev.code = "Char" /\ ev.ch \in {CharS, CharQ})
    \/ input_mode = "Editing" /\ ev.code \notin {"Char", "Backspace", "Esc"}

KeyIgnored(ev) ==
    /\ pc = "poll"
    /\ Ignored(ev)
    /\ last_event' = ev
    /\ EndOfIteration
    /\ UNCHANGED <<corpus, duration, input, input_mode, is_started, raw_mistakes_count,
                   raw_valid_characters_count, start_time, pause_time, time_left,
                   poll_deadline, result, now, running_time, at_pause,
                   paused_time, chars_processed,
                   getStringVars, layoutVars, startupVars>>

\* a resume that leaves start_time alone, so that the pause counts as running time
ResumeStartTime_keep ==
    IF is_started THEN start_time ELSE now

\* the new start_time on `s`: the first start anchors it at the present, a resume
\* moves it forward by the length of the pause
ResumeStartTime ==
    IF is_started THEN start_time + elapsed(pause_time) ELSE now

\* the start of the test bound to `e`
KeyStart_e(ev) ==
    /\ pc = "poll"
    /\ IsPress(ev)
    /\ input_mode = "Normal"
    /\ ev.code = "Char" /\ ev.ch = CharE
    /\ start_time' = IF is_started THEN start_time + elapsed(pause_time) ELSE now
    /\ is_started' = TRUE
    /\ input_mode' = "Editing"
    /\ at_pause' = NoSnapshot
    /\ last_event' = ev
    /\ EndOfIteration
    /\ UNCHANGED <<corpus, duration, input, raw_mistakes_count,
                   raw_valid_characters_count, pause_time, time_left, poll_deadline,
                   result, now, running_time, paused_time, chars_processed,
                   getStringVars, layoutVars, startupVars>>

\* `s` handled as the start of a new test: the raw counters are reset
KeyStart_reset(ev) ==
    /\ pc = "poll"
    /\ IsPress(ev)
    /\ input_mode = "Normal"
    /\ ev.code = "Char" /\ ev.ch = CharS
    /\ start_time' = ResumeStartTime
    /\ is_started' = TRUE
    /\ input_mode' = "Editing"
    /\ raw_mistakes_count' = 0
    /\ raw_valid_characters_count' = 0
    /\ at_pause' = NoSnapshot
    /\ last_event' = ev
    /\ EndOfIteration
    /\ UNCHANGED <<corpus, duration, input, pause_time, time_left, poll_deadline,
                   result, now, running_time, paused_time, chars_processed,
                   getStringVars, layoutVars, startupVars>>

\* Normal mode, KeyCode::Char('s'): start the test or resume it
KeyStart(ev) ==
    /\ pc = "poll"
    /\ IsPress(ev)
    /\ input_mode = "Normal"
    /\ ev.code = "Char" /\ ev.ch = CharS
    /\ start_time' = ResumeStartTime
    /\ is_started' = TRUE
    /\ input_mode' = "Editing"
    /\ at_pause' = NoSnapshot
    /\ last_event' = ev
    /\ EndOfIteration
    /\ UNCHANGED <<corpus, duration, input, raw_mistakes_count,
                   raw_valid_characters_count, pause_time, time_left, poll_deadline,
                   result, now, running_time, paused_time, chars_processed,
                   getStringVars, layoutVars, startupVars>>

\* `q` returning the statistics of the test so far instead of the empty ones
KeyQuit_stats(ev) ==
    /\ pc = "poll"
    /\ IsPress(ev)
    /\ input_mode = "Normal"
    /\ ev.code = "Char" /\ ev.ch = CharQ
    /\ result' = TestResults_new(
                     get_stats(input, corpus, raw_valid_characters_count,
                               raw_mistakes_count, duration),
                     duration, FALSE)
    /\ pc' = "returned"
    /\ last_event' = ev
    /\ UNCHANGED <<corpus, duration, input, input_mode, is_started, raw_mistakes_count,
                   raw_valid_characters_count, start_time, pause_time, last_tick,
                   time_left, poll_deadline, now, running_time, at_pause,
                   paused_time, chars_processed,
                   getStringVars, layoutVars, startupVars>>

\* a `q` that quits whatever the mode
KeyQuit_anymode(ev) ==
    /\ pc = "poll"
    /\ IsPress(ev)
    /\ ev.code = "Char" /\ ev.ch = CharQ
    /\ result' = TestResults_new(Stats_default, duration, FALSE)
    /\ pc' = "returned"
    /\ last_event' = ev
    /\ UNCHANGED <<corpus, duration, input, input_mode, is_started, raw_mistakes_count,
                   raw_valid_characters_count, start_time, pause_time, last_tick,
                   time_left, poll_deadline, now, running_time, at_pause,
                   paused_time, chars_processed,
                   getStringVars, layoutVars, startupVars>>

\* Normal mode, KeyCode::Char('q'): run returns the results of a cancelled test
KeyQuit(ev) ==
    /\ pc = "poll"
    /\ IsPress(ev)
    /\ input_mode = "Normal"
    /\ ev.code = "Char" /\ ev.ch = CharQ
    /\ result' = TestResults_new(Stats_default, duration, FALSE)
    /\ pc' = "returned"
    /\ last_event' = ev
    /\ UNCHANGED <<corpus, duration, input, input_mode, is_started, raw_mistakes_count,
                   raw_valid_characters_count, start_time, pause_time, last_tick,
                   time_left, poll_deadline, now, running_time, at_pause,
                   paused_time, chars_processed,
                   getStringVars, layoutVars, startupVars>>

\* Editing mode, ctrl+h, ctrl+w, ctrl+Backspace, alt+Backspace
KeyWordDelete(ev) ==
    /\ pc = "poll"
    /\ IsPress(ev)
    /\ input_mode = "Editing"
    /\ IsWordDelete(ev)
    /\ input' = remove_last_word(input)
    /\ last_event' = ev
    /\ EndOfIteration
    /\ UNCHANGED <<corpus, duration, input_mode, is_started, raw_mistakes_count,
                   raw_valid_characters_count, start_time, pause_time, time_left,
                   poll_deadline, result, now, running_time, at_pause,
                   paused_time, chars_processed,
                   getStringVars, layoutVars, startupVars>>

\* Editing mode, KeyCode::Char(c): the character is pushed and classified
KeyChar(ev) ==
    /\ pc = "poll"
    /\ IsPress(ev)
    /\ input_mode = "Editing"
    /\ ev.code = "Char" /\ ~IsWordDelete(ev)
    /\ raw_valid_characters_count + raw_mistakes_count < MaxKeys
    /\ input' = Append(input, ev.ch)
    /\ IF is_correct(input', corpus)
       THEN /\ raw_valid_characters_count' = raw_valid_characters_count + 1
            /\ UNCHANGED raw_mistakes_count
       ELSE /\ raw_mistakes_count' = raw_mistakes_count + 1
            /\ UNCHANGED raw_valid_characters_count
    /\ chars_processed' = chars_processed + 1
    /\ last_event' = ev
    /\ EndOfIteration
    /\ UNCHANGED <<corpus, duration, input_mode, is_started, start_time, pause_time,
                   time_left, poll_deadline, result, now, running_time, at_pause,
                   paused_time, getStringVars, layoutVars, startupVars>>

\* Backspace taking a counted mistake back
KeyBackspace_uncount(ev) ==
    /\ pc = "poll"
    /\ IsPress(ev)
    /\ input_mode = "Editing"
    /\ ev.code = "Backspace" /\ ~IsWordDelete(ev)
    /\ input' = pop(input)
    /\ raw_mistakes_count' = IF raw_mistakes_count > 0
                             THEN raw_mistakes_count - 1 ELSE 0
    /\ last_event' = ev
    /\ EndOfIteration
    /\ UNCHANGED <<corpus, duration, input_mode, is_started,
                   raw_valid_characters_count, start_time, pause_time, time_left,
                   poll_deadline, result, now, running_time, at_pause,
                   paused_time, chars_processed,
                   getStringVars, layoutVars, startupVars>>

\* a Backspace handled before the mode is looked at
KeyBackspace_anymode(ev) ==
    /\ pc = "poll"
    /\ IsPress(ev)
    /\ ev.code = "Backspace" /\ ~IsWordDelete(ev)
    /\ input' = pop(input)
    /\ last_event' = ev
    /\ EndOfIteration
    /\ UNCHANGED <<corpus, duration, input_mode, is_started, raw_mistakes_count,
                   raw_valid_characters_count, start_time, pause_time, time_left,
                   poll_deadline, result, now, running_time, at_pause,
                   paused_time, chars_processed,
                   getStringVars, layoutVars, startupVars>>

\* a Backspace that deletes the last word whatever the modifiers
KeyBackspace_word(ev) ==
    /\ pc = "poll"
    /\ IsPress(ev)
    /\ input_mode = "Editing"
    /\ ev.code = "Backspace" /\ ~IsWordDelete(ev)
    /\ input' = remove_last_word(input)
    /\ last_event' = ev
    /\ EndOfIteration
    /\ UNCHANGED <<corpus, duration, input_mode, is_started, raw_mistakes_count,
                   raw_valid_characters_count, start_time, pause_time, time_left,
                   poll_deadline, result, now, running_time, at_pause,
                   paused_time, chars_processed,
                   getStringVars, layoutVars, startupVars>>

\* Editing mode, KeyCode::Backspace without ctrl or alt
KeyBackspace(ev) ==
    /\ pc = "poll"
    /\ IsPress(ev)
    /\ input_mode = "Editing"
    /\ ev.code = "Backspace" /\ ~IsWordDelete(ev)
    /\ input' = pop(input)
    /\ last_event' = ev
    /\ EndOfIteration
    /\ UNCHANGED <<corpus, duration, input_mode, is_started, raw_mistakes_count,
                   raw_valid_characters_count, start_time, pause_time, time_left,
                   poll_deadline, result, now, running_time, at_pause,
                   paused_time, chars_processed,
                   getStringVars, layoutVars, startupVars>>

\* Editing mode, KeyCode::Esc: pause
KeyEsc(ev) ==
    /\ pc = "poll"
    /\ IsPress(ev)
    /\ input_mode = "Editing"
    /\ ev.code = "Esc"
    /\ pause_time' = now
    /\ input_mode' = "Normal"
    /\ at_pause' = [input |-> input, raw_valid |-> raw_valid_characters_count,
                    raw_mistakes |-> raw_mistakes_count]
    /\ last_event' = ev
    /\ EndOfIteration
    /\ UNCHANGED <<corpus, duration, input, is_started, raw_mistakes_count,
                   raw_valid_characters_count, start_time, time_left, poll_deadline,
                   result, now, running_time, paused_time, chars_processed,
                   getStringVars, layoutVars, startupVars>>

\* a second passes while the loop is blocked in event::poll, the only place where
\* it waits
Tick ==
    /\ pc = "poll"
    /\ now < MaxTime \/ (input_mode = "Editing" /\ elapsed(start_time) < duration)
    /\ now' = now + 1
    /\ running_time' = IF input_mode = "Editing" THEN running_time + 1 ELSE running_time
    /\ paused_time' = IF input_mode = "Normal" /\ is_started
                      THEN paused_time + 1 ELSE paused_time
    /\ UNCHANGED <<corpus, duration, input, input_mode, is_started, raw_mistakes_count,
                   raw_valid_characters_count, start_time, pause_time, last_tick,
                   time_left, poll_deadline, pc, result, last_event, at_pause,
                   chars_processed, getStringVars, layoutVars, startupVars>>

Next ==
    \/ Finish
    \/ Draw
    \/ PollTimeout
    \/ Tick
    \/ \E ev \in Events : KeyIgnored(ev)
    \/ \E ev \in Events : KeyStart(ev)
    \/ \E ev \in Events : KeyQuit(ev)
    \/ \E ev \in Events : KeyWordDelete(ev)
    \/ \E ev \in Events : KeyChar(ev)
    \/ \E ev \in Events : KeyBackspace(ev)
    \/ \E ev \in Events : KeyEsc(ev)

Spec == Init /\ [][Next]_vars

----------------------------------------------------------------------------
(* The control loop with the key `e` among the keys pressed *)

\* the help message render prints in the info area
help_message ==
    IF input_mode = "Normal"
    THEN IF is_started
         THEN "press 's' to unpause the test, press 'q' to quit"
         ELSE "press 's' to start the test, press 'q' to quit"
    ELSE "press 'Esc' to pause the test"

PressE == KeyPress("Char", CharE, FALSE, FALSE)
PressS == KeyPress("Char", CharS, FALSE, FALSE)

EventsWithE == Events \cup {PressE}

\* one corpus: the handling of the start key does not depend on the text
InitStartKey ==
    /\ corpus = <<CharQ, CharSpace, CharS>>
    /\ duration \in 0..MaxDuration
    /\ InitSession
    /\ InitGetString
    /\ InitLayout
    /\ InitBooted

NextStartKey ==
    \/ Finish
    \/ Draw
    \/ PollTimeout
    \/ Tick
    \/ \E ev \in EventsWithE : KeyIgnored(ev)
    \/ \E ev \in EventsWithE : KeyStart(ev)
    \/ \E ev \in EventsWithE : KeyQuit(ev)
    \/ \E ev \in EventsWithE : KeyWordDelete(ev)
    \/ \E ev \in EventsWithE : KeyChar(ev)
    \/ \E ev \in EventsWithE : KeyBackspace(ev)
    \/ \E ev \in EventsWithE : KeyEsc(ev)

SpecStartKey == InitStartKey /\ [][NextStartKey]_vars

----------------------------------------------------------------------------
(* main after Runner::run: what is done with the results. A call that does  *)
(* input or output (render_stats, save_to_file, show_results) may fail.     *)

\* one corpus: the text plays no part in what main does with the results
InitMain ==
    /\ corpus = <<CharQ, CharSpace, CharS>>
    /\ duration \in 0..MaxDuration
    /\ InitSession
    /\ InitGetString
    /\ InitLayout
    /\ InitConstructed
    /\ save_results \in BOOLEAN

\* main with the results saved whether or not the test was completed
MainResults_saves_cancelled ==
    /\ pc = "returned"
    /\ outcome = NoOutcome
    /\ outcome' = Exit(result.completed, result.save, result.completed, "Ok")
    /\ UNCHANGED <<corpus, duration, input, sessionVars, getStringVars, layoutVars,
                   dictionary, flags, string_vec, words_start_pos, boot_pc, new_result,
                   terminal_entered, runner_created, save_results>>

\* main, lines 124-155: the match on the value of app.run
MainResults ==
    /\ pc = "returned"
    /\ outcome = NoOutcome
    /\ IF result.completed
       THEN \E render_ok \in BOOLEAN, save_ok \in BOOLEAN, show_ok \in BOOLEAN :
                outcome' =
                    IF ~render_ok THEN Exit(TRUE, FALSE, FALSE, "Err")
                    ELSE IF result.save /\ ~save_ok THEN Exit(TRUE, TRUE, FALSE, "Err")
                    ELSE Exit(TRUE, result.save, TRUE,
                              IF show_ok THEN "Ok" ELSE "Err")
       ELSE outcome' = Exit(FALSE, FALSE, FALSE, "Ok")
    /\ UNCHANGED <<corpus, duration, input, sessionVars, getStringVars, layoutVars,
                   dictionary, flags, string_vec, words_start_pos, boot_pc, new_result,
                   terminal_entered, runner_created, save_results>>

NextMain == Next \/ MainResults

SpecMain == InitMain /\ [][NextMain]_vars

----------------------------------------------------------------------------
(* ExpectedInput::get_string as a function: two calls on one corpus *)

InitGS ==
    /\ corpus \in Corpora \cup {<<CharS>>, <<CharBen, CharSpace, CharBen, CharBen>>}
    /\ duration = 0
    /\ InitSession
    /\ gs_len = -1
    /\ gs_out = <<>>
    /\ gs_len2 = -1
    /\ gs_out2 = <<>>
    /\ InitLayout
    /\ InitBooted

CallGetString(n, m) ==
    /\ gs_len' = n
    /\ gs_out' = get_string(corpus, n)
    /\ gs_len2' = m
    /\ gs_out2' = get_string(corpus, m)
    /\ UNCHANGED <<corpus, duration, input, sessionVars, layoutVars, startupVars>>

NextGS == \E n \in 0..MaxLen : \E m \in n..MaxLen : CallGetString(n, m)

SpecGS == InitGS /\ [][NextGS]_vars

----------------------------------------------------------------------------
(* Runner::render as a function of the input and the frame width: the      *)
(* three slices of the expected text                                       *)

\* the layout part of Runner::render
render_layout(in, str, width) ==
    LET input_chars_count == CharsCount(in)
        current_line_index == (input_chars_count \div width) % U16
        input_current_line_len == input_chars_count % width
        expected_input_str == get_string(str, (current_line_index + 2) * width)
        lines == split_by_char_index(expected_input_str,
                                     (current_line_index + 1) * width)
        current == split_by_char_index(lines[1], input_chars_count)
    IN  [requested |-> (current_line_index + 2) * width,
         expected_input_str |-> expected_input_str,
         already_typed |-> current[1],
         current_line_rest |-> current[2],
         following_lines |-> lines[2]]

NoCursor == [hidden |-> TRUE]

\* Layout::split of a frame of the given size, Length(1) above Min(1): the
\* input area is what is left under the one line of the info area
input_area_of(width, height) ==
    [x |-> 0, y |-> 1, width |-> width, height |-> height - 1]

\* move_cursor with the cursor set in both modes
move_cursor_anymode(mode, area, input_current_line_len, current_line_index) ==
    [hidden |-> FALSE,
     x |-> area.x + input_current_line_len,
     y |-> area.y + current_line_index]

\* Runner::move_cursor: the call of set_cursor, or none
move_cursor(mode, area, input_current_line_len, current_line_index) ==
    IF mode = "Normal" THEN NoCursor
    ELSE [hidden |-> FALSE,
          x |-> area.x + input_current_line_len,
          y |-> area.y + current_line_index]

\* Runner::render on a frame of the given size: the frames it may leave. The
\* height of the following lines is a difference of u16 values: where it would
\* be negative a build with overflow checks panics before move_cursor is
\* reached, and a build without them wraps. The other sums of u16 values stay
\* below 2^16 for the sizes of the model.
render(in, str, mode, width, height) ==
    LET slices == render_layout(in, str, width)
        input_area == input_area_of(width, height)
        input_chars_count == CharsCount(in)
        current_line_index == (input_chars_count \div width) % U16
        input_current_line_len == input_chars_count % width
        following_height == input_area.height - current_line_index - 1
        drawn == [requested |-> slices.requested,
                  expected_input_str |-> slices.expected_input_str,
                  already_typed |-> slices.already_typed,
                  current_line_rest |-> slices.current_line_rest,
                  following_lines |-> slices.following_lines,
                  input_area |-> input_area,
                  current_line_index |-> current_line_index,
                  following_height |-> following_height % U16,
                  cursor |-> move_cursor(mode, input_area, input_current_line_len,
                                         current_line_index),
                  panic |-> FALSE]
    IN  IF following_height >= 0 THEN {drawn}
        ELSE {drawn,
              [drawn EXCEPT !.cursor = NoCursor, !.panic = TRUE]}

RECURSIVE Strings(_, _)
\* the strings of at most n characters over an alphabet
Strings(alphabet, n) ==
    IF n = 0 THEN {<<>>}
    ELSE LET shorter == Strings(alphabet, n - 1)
         IN  shorter \cup {Append(t, c) : t \in shorter, c \in alphabet}

\* an input of as many characters as `as u16` has values
LongInput == [i \in 1..U16 |-> CharS]

InitLayoutSpec ==
    /\ corpus \in Corpora
    /\ duration = 0
    /\ input \in Strings({CharS, CharBen}, MaxTyped) \cup {LongInput}
    /\ input_mode \in {"Normal", "Editing"}
    /\ is_started \in {b \in BOOLEAN : (input_mode = "Editing" \/ input # <<>>) => b}
    /\ raw_mistakes_count = 0
    /\ raw_valid_characters_count = 0
    /\ now = 0
    /\ start_time = 0
    /\ pause_time = 0
    /\ last_tick = 0
    /\ time_left = 0
    /\ poll_deadline = 0
    /\ pc = "loop"
    /\ result = NoResult
    /\ running_time = 0
    /\ last_event = NoEvent
    /\ at_pause = NoSnapshot
    /\ paused_time = 0
    /\ chars_processed = 0
    /\ InitGetString
    /\ frame_width = 0
    /\ layout = NoLayout
    /\ InitBooted

Render(width, height) ==
    /\ frame_width' = width
    /\ layout' \in render(input, corpus, input_mode, width, height)
    /\ UNCHANGED <<corpus, duration, input, sessionVars, getStringVars, startupVars>>

NextLayout == \E width \in 1..MaxWidth, height \in 2..MaxHeight : Render(width, height)

SpecLayout == InitLayoutSpec /\ [][NextLayout]_vars

----------------------------------------------------------------------------
(* A test in Editing mode whose text has been typed: the corrections        *)
(* (Backspace, the word deletions), the clock and the return of the         *)
(* statistics.  The initial states are the states of Runner::run at the    *)
(* top of the loop after the characters of `input` were pressed one after   *)
(* the other, with no correction and no pause.                              *)

EditChars == {CharSpace, CharS, CharBen, CharIdeographicSpace}

\* the raw counters after the characters of `in` were pressed in order: each
\* press is classified by Runner::run as it is in KeyChar
TypedCounters(in, str) ==
    LET valid == Cardinality({i \in 1..Len(in) : is_correct(SubSeq(in, 1, i), str)})
    IN  [raw_valid |-> valid, raw_mistakes |-> Len(in) - valid]

\* the last event handled before the top of the loop: the press of the last
\* character, or of the `s` that started the test
LastPress(in) ==
    KeyPress("Char", IF in = <<>> THEN CharS ELSE in[Len(in)], FALSE, FALSE)

\* the state at the top of the loop, `at` seconds after the start, with `in` typed
\* and classified as `counters` say
TypedState(str, dur, in, counters, at) ==
    /\ corpus = str
    /\ duration = dur
    /\ input = in
    /\ input_mode = "Editing"
    /\ is_started = TRUE
    /\ raw_mistakes_count = counters.raw_mistakes
    /\ raw_valid_characters_count = counters.raw_valid
    /\ now = at
    /\ start_time = 0
    /\ pause_time = 0
    /\ last_tick = at
    /\ time_left = checked_sub_or_zero(dur, checked_sub_or_zero(at, 1))
    /\ poll_deadline = at
    /\ pc = "loop"
    /\ result = NoResult
    /\ running_time = at
    /\ last_event = LastPress(in)
    /\ at_pause = NoSnapshot
    /\ paused_time = 0
    /\ chars_processed = Len(in)

\* three hundred characters of one-byte characters typed without a mistake in a
\* test of one minute: "q s " seventy-five times against the corpus "q s"
MinuteText == repeat(<<CharQ, CharSpace, CharS, CharSpace>>, 75)

\* a text that begins with a space: " s s"
SpacedText == <<CharSpace, CharS, CharSpace, CharS>>

InitEdit ==
    /\ \/ \E dur \in 1..MaxEditDuration :
              TypedState(<<CharQ, CharSpace, CharS>>, dur, SpacedText,
                         TypedCounters(SpacedText, <<CharQ, CharSpace, CharS>>), 0)
       \/ \E str \in Corpora, dur \in 0..MaxEditDuration,
             in \in Strings(EditChars, MaxEdit) :
               \* a test of zero seconds ends before a character is read
               /\ dur = 0 => in = <<>>
               /\ TypedState(str, dur, in, TypedCounters(in, str), 0)
       \/ TypedState(<<CharQ, CharSpace, CharS>>, 60, MinuteText,
                     [raw_valid |-> Len(MinuteText), raw_mistakes |-> 0], 60)
    /\ InitGetString
    /\ InitLayout
    /\ InitBooted

NextEdit ==
    \/ Finish
    \/ Draw
    \/ PollTimeout
    \/ Tick
    \/ \E ev \in Events : KeyWordDelete(ev)
    \/ \E ev \in Events : KeyBackspace(ev)

SpecEdit == InitEdit /\ [][NextEdit]_vars

\* The scheduling of the loop: it is never suspended at its top (the timeout
\* check and the drawing of the frame are straight-line code), event::poll
\* returns once its timeout has passed, and the clock goes on: no infinite
\* sequence of events fits into one second.  No event is ever required to
\* arrive.
FairEdit ==
    /\ WF_vars(Finish)
    /\ WF_vars(Draw)
    /\ WF_vars(PollTimeout)
    /\ SF_vars(Tick)

SpecEditLive == InitEdit /\ [][NextEdit]_vars /\ FairEdit

----------------------------------------------------------------------------
(* ExpectedInput::new and the start of main.  The random choices (the      *)
(* digits, the index and the symbol of a replacement, the shuffles) are    *)
(* choices of the steps.                                                   *)

\* usize::MAX, 2^64 - 1 on the 64-bit targets: what 0 - 1 wraps to when the
\* overflow checks are off.  The value stands for it: it is only compared with
\* lengths of vectors, all of them far below.
UsizeMax == 2147483647

Digits == {CharZero, CharNine}

\* the characters random_str::get_symbol may return
Symbols == {CharBang, CharAt}

RECURSIVE split_newline(_)
\* str::split("\n"): the pieces between the newlines, empty ones included
split_newline(s) ==
    IF \A i \in 1..Len(s) : s[i] # CharNewline THEN <<s>>
    ELSE LET n == CHOOSE n \in 1..Len(s) :
                      /\ s[n] = CharNewline
                      /\ \A i \in 1..(n - 1) : s[i] # CharNewline
         IN  <<SubSeq(s, 1, n - 1)>> \o split_newline(SubSeq(s, n + 1, Len(s)))

\* str::trim: without the leading and the trailing whitespace
trim(s) ==
    LET keep == {i \in 1..Len(s) : ~IsWhitespace(s[i])}
    IN  IF keep = {} THEN <<>>
        ELSE LET first == CHOOSE i \in keep : \A j \in keep : i <= j
                 last == CHOOSE i \in keep : \A j \in keep : j <= i
             IN  SubSeq(s, first, last)

\* (ratio * n as f64).round() as usize, for a ratio num/den in [0, 1]: f64::round
\* rounds half-way cases away from zero
Round(ratio, n) == (2 * ratio.num * n + ratio.den) \div (2 * ratio.den)

RECURSIVE Vectors(_)
\* the vectors whose element at each index is one of the choices at that index
Vectors(choices) ==
    IF Len(choices) = 0 THEN {<<>>}
    ELSE {<<h>> \o t : h \in choices[1],
                       t \in Vectors(SubSeq(choices, 2, Len(choices)))}

\* the strings of exactly n characters over an alphabet
StringsOfLen(alphabet, n) == {t \in Strings(alphabet, n) : Len(t) = n}

\* `(0..word.len()).map(|_| rng.gen_range(b'0'..=b'9') as char).collect()`:
\* one digit for each BYTE of the word
random_digits(word) == StringsOfLen(Digits, ByteLen(word))

\* change_to_num_threshold of replace_words_with_numbers
change_to_num_threshold(v, numbers_ratio) == Round(numbers_ratio, Len(v))

\* replace_words_with_numbers: the vectors it may leave in *string_vec
\* the comparison of the index with the threshold made inclusive
replace_words_with_numbers_inclusive(v, numbers_ratio) ==
    Vectors([i \in 1..Len(v) |->
                IF i - 1 <= change_to_num_threshold(v, numbers_ratio)
                THEN random_digits(v[i])
                ELSE {v[i]}])

replace_words_with_numbers(v, numbers_ratio) ==
    Vectors([i \in 1..Len(v) |->
                IF i - 1 < change_to_num_threshold(v, numbers_ratio)
                THEN random_digits(v[i])
                ELSE {v[i]}])

\* char::to_uppercase, for the characters of the model: a sequence, since the
\* uppercase of one character may be several
to_uppercase(c) ==
    IF c = CharEszett THEN <<CharUpperS, CharUpperS>>
    ELSE IF c \in 97..122 THEN <<c - 32>>
    ELSE <<c>>

\* the body of the loop of create_uppercase_words for one word:
\* v[0] = v[0].to_uppercase().nth(0)
uppercase_word(word) ==
    IF word = <<>> THEN word
    ELSE [word EXCEPT ![1] = to_uppercase(word[1])[1]]

\* create_uppercase_words for pos <= len: the words at the 0-based indices
\* pos .. pos + num_uppercase_words
create_uppercase_words(v, pos, uppercase_ratio) ==
    LET num_uppercase_words == Round(uppercase_ratio, Len(v) - pos)
    IN  [i \in 1..Len(v) |->
            IF pos < i /\ i <= pos + num_uppercase_words
            THEN uppercase_word(v[i])
            ELSE v[i]]

\* a symbol appended to the word instead of written over a character
symbol_word_append(word) ==
    IF Len(word) >= 2
    THEN {word \o <<symbol>> : symbol \in Symbols}
    ELSE {word}

\* the index drawn from the whole word, gen_range(0..v.len()), with no lower
\* limit on the length
symbol_word_any_index(word) ==
    IF Len(word) >= 1
    THEN {[word EXCEPT ![index + 1] = symbol] :
              index \in 0..(Len(word) - 1), symbol \in Symbols}
    ELSE {word}

\* the body of the loop of replace_words_with_symbols for one word: a word of
\* two characters or more gets a symbol at an index of gen_range(1..v.len())
symbol_word(word) ==
    IF Len(word) >= 2
    THEN {[word EXCEPT ![index + 1] = symbol] :
              index \in 1..(Len(word) - 1), symbol \in Symbols}
    ELSE {word}

\* replace_words_with_symbols for pos <= len: the vectors it may leave
replace_words_with_symbols(v, pos, symbols_ratio) ==
    LET num_symbols == Round(symbols_ratio, Len(v) - pos)
    IN  Vectors([i \in 1..Len(v) |->
                    IF pos < i /\ i <= pos + num_symbols
                    THEN symbol_word(v[i])
                    ELSE {v[i]}])

\* slice::shuffle: the vector in any order
shuffle(v) == {[i \in 1..Len(v) |-> v[p[i]]] : p \in Permutations(1..Len(v))}

Ratios == {[num |-> 0, den |-> 1], [num |-> 1, den |-> 2], [num |-> 1, den |-> 1]}

\* the configurations: a ratio matters only if its flag is set
FlagSets ==
    {[numbers |-> n, numbers_ratio |-> nr, uppercase |-> u, uppercase_ratio |-> ur,
      symbols |-> y, symbols_ratio |-> yr, build |-> b] :
        n \in BOOLEAN, nr \in Ratios \cup {DefaultFlags.numbers_ratio},
        u \in BOOLEAN, ur \in Ratios \cup {DefaultFlags.uppercase_ratio},
        y \in BOOLEAN, yr \in Ratios \cup {DefaultFlags.symbols_ratio},
        b \in {"debug", "release"}}

DictWords == {<<>>, <<CharS>>, <<CharEszett, CharS>>}

\* the words of the built-in dictionary
BuiltinWords == <<CharS, CharNewline, CharEszett, CharS>>

\* the dictionaries: the built-in one, a path that cannot be opened, a file that
\* cannot be read (not UTF-8, a directory), files of one word per line, a file of
\* nothing but whitespace, a file with a blank line between two words
Dictionaries ==
    {[kind |-> "builtin", text |-> BuiltinWords],
     [kind |-> "missing", text |-> <<>>],
     [kind |-> "unreadable", text |-> <<>>],
     [kind |-> "file", text |-> <<CharSpace, CharNewline, CharSpace>>],
     [kind |-> "file", text |-> <<CharS, CharNewline, CharNewline, CharS>>]}
    \cup {[kind |-> "file", text |-> join(ws, <<CharNewline>>)] :
              ws \in Strings(DictWords, MaxWords) \ {<<>>}}

InitStartup ==
    /\ dictionary \in Dictionaries
    /\ flags \in {f \in FlagSets :
                     /\ f.numbers = (f.numbers_ratio \in Ratios)
                     /\ f.uppercase = (f.uppercase_ratio \in Ratios)
                     /\ f.symbols = (f.symbols_ratio \in Ratios)
                     /\ (f.build = "debug") => f.numbers}
    /\ string_vec = <<>>
    /\ words_start_pos = 0
    /\ boot_pc = "new"
    /\ new_result = NoReturn
    /\ terminal_entered = FALSE
    /\ runner_created = FALSE
    /\ save_results = TRUE
    /\ outcome = NoOutcome
    /\ corpus = <<>>
    /\ duration = 1
    /\ input = <<>>
    /\ InitSession
    /\ InitGetString
    /\ InitLayout

\* a dictionary that cannot be opened or read replaced by the built-in one
NewReadDictionary_fallback ==
    /\ boot_pc = "new"
    /\ string_vec' = IF dictionary.kind = "file"
                     THEN split_newline(dictionary.text)
                     ELSE split_newline(BuiltinWords)
    /\ boot_pc' = "numbers"
    /\ UNCHANGED <<corpus, duration, input, sessionVars, getStringVars, layoutVars,
                   mainVars,
                   dictionary, flags, words_start_pos, new_result, terminal_entered,
                   runner_created>>

\* ExpectedInput::new, lines 34-45: the words of the dictionary, one per line
NewReadDictionary ==
    /\ boot_pc = "new"
    /\ IF dictionary.kind = "missing"
       THEN /\ new_result' = Err("Unable to open dictionary file")
            /\ boot_pc' = "exit"
            /\ UNCHANGED string_vec
       ELSE IF dictionary.kind = "unreadable"
       THEN /\ new_result' = Err("Unable to read dictionary file")
            /\ boot_pc' = "exit"
            /\ UNCHANGED string_vec
       ELSE /\ string_vec' = split_newline(dictionary.text)
            /\ boot_pc' = "numbers"
            /\ UNCHANGED new_result
    /\ UNCHANGED <<corpus, duration, input, sessionVars, getStringVars, layoutVars,
                   mainVars,
                   dictionary, flags, words_start_pos, terminal_entered,
                   runner_created>>

\* ExpectedInput::new, lines 52-56, with replace_words_with_numbers: the return
\* value change_to_num_threshold - 1 underflows for a threshold of 0
NewNumbers ==
    /\ boot_pc = "numbers"
    /\ IF ~flags.numbers
       THEN /\ boot_pc' = "uppercase"
            /\ UNCHANGED <<string_vec, words_start_pos, new_result>>
       ELSE /\ string_vec' \in replace_words_with_numbers(string_vec, flags.numbers_ratio)
            /\ LET threshold == change_to_num_threshold(string_vec, flags.numbers_ratio)
               IN  IF threshold >= 1
                   THEN /\ words_start_pos' = threshold - 1
                        /\ boot_pc' = "uppercase"
                        /\ UNCHANGED new_result
                   ELSE IF flags.build = "release"
                   THEN /\ words_start_pos' = UsizeMax
                        /\ boot_pc' = "uppercase"
                        /\ UNCHANGED new_result
                   ELSE /\ new_result' = Panic("attempt to subtract with overflow")
                        /\ boot_pc' = "exit"
                        /\ UNCHANGED words_start_pos
    /\ UNCHANGED <<corpus, duration, input, sessionVars, getStringVars, layoutVars,
                   mainVars,
                   dictionary, flags, terminal_entered, runner_created>>

\* ExpectedInput::new, lines 58-62, with create_uppercase_words:
\* string_vec[pos..] panics for pos > len
NewUppercase ==
    /\ boot_pc = "uppercase"
    /\ IF ~flags.uppercase
       THEN /\ boot_pc' = "symbols"
            /\ UNCHANGED <<string_vec, new_result>>
       ELSE IF words_start_pos > Len(string_vec)
       THEN /\ new_result' = Panic("range start index out of range")
            /\ boot_pc' = "exit"
            /\ UNCHANGED string_vec
       ELSE /\ string_vec' = create_uppercase_words(string_vec, words_start_pos,
                                                    flags.uppercase_ratio)
            /\ boot_pc' = "symbols"
            /\ UNCHANGED new_result
    /\ UNCHANGED <<corpus, duration, input, sessionVars, getStringVars, layoutVars,
                   mainVars,
                   dictionary, flags, words_start_pos, terminal_entered,
                   runner_created>>

\* ExpectedInput::new, lines 64-73, with replace_words_with_symbols
NewSymbols ==
    /\ boot_pc = "symbols"
    /\ IF ~flags.symbols
       THEN /\ boot_pc' = "join"
            /\ UNCHANGED <<string_vec, new_result>>
       ELSE IF words_start_pos > Len(string_vec)
       THEN /\ new_result' = Panic("range start index out of range")
            /\ boot_pc' = "exit"
            /\ UNCHANGED string_vec
       ELSE /\ string_vec' \in replace_words_with_symbols(string_vec, words_start_pos,
                                                         flags.symbols_ratio)
            /\ boot_pc' = "join"
            /\ UNCHANGED new_result
    /\ UNCHANGED <<corpus, duration, input, sessionVars, getStringVars, layoutVars,
                   mainVars,
                   dictionary, flags, words_start_pos, terminal_entered,
                   runner_created>>

\* ExpectedInput::new, lines 75-79: shuffle, join(" "), trim, Ok
NewJoin ==
    /\ boot_pc = "join"
    /\ \E str_vec \in shuffle(string_vec) :
           new_result' = Ok(trim(join(str_vec, <<CharSpace>>)))
    /\ boot_pc' = "terminal"
    /\ UNCHANGED <<corpus, duration, input, sessionVars, getStringVars, layoutVars,
                   mainVars,
                   dictionary, flags, string_vec, words_start_pos, terminal_entered,
                   runner_created>>

\* main, line 119: configure_terminal
ConfigureTerminal ==
    /\ boot_pc = "terminal"
    /\ terminal_entered' = TRUE
    /\ boot_pc' = "runner"
    /\ UNCHANGED <<corpus, duration, input, sessionVars, getStringVars, layoutVars,
                   mainVars,
                   dictionary, flags, string_vec, words_start_pos, new_result,
                   runner_created>>

\* main, lines 121-122: Runner::new over the expected input, then app.run
RunnerNew ==
    /\ boot_pc = "runner"
    /\ corpus' = new_result.str
    /\ runner_created' = TRUE
    /\ boot_pc' = "run"
    /\ UNCHANGED <<duration, input, sessionVars, getStringVars, layoutVars,
                   mainVars,
                   dictionary, flags, string_vec, words_start_pos, new_result,
                   terminal_entered>>

NextStartup ==
    \/ NewReadDictionary
    \/ NewNumbers
    \/ NewUppercase
    \/ NewSymbols
    \/ NewJoin
    \/ ConfigureTerminal
    \/ RunnerNew

SpecStartup == InitStartup /\ [][NextStartup]_vars

----------------------------------------------------------------------------
(* The properties *)

\* the terminal states of the session
Finished == pc = "returned" /\ result.completed
Cancelled == pc = "returned" /\ ~result.completed

\* the character at character index k (0-based) of the expected text
ExpectedChar(str, k) ==
    LET s == str \o <<CharSpace>> IN s[(k % Len(s)) + 1]

\* the step that handles the press of a printable character in Editing mode
CharKeyStep ==
    /\ pc = "poll" /\ pc' = "loop"
    /\ input_mode = "Editing"
    /\ IsPress(last_event')
    /\ last_event'.code = "Char"
    /\ ~IsWordDelete(last_event')

\* the step that handles the press of `q` in Normal mode
QuitKeyStep ==
    /\ pc = "poll"
    /\ input_mode = "Normal"
    /\ IsPress(last_event')
    /\ last_event'.code = "Char"
    /\ last_event'.ch = CharQ

\* the step that handles the press of Backspace without ctrl or alt in Editing mode
BackspaceKeyStep ==
    /\ pc = "poll"
    /\ input_mode = "Editing"
    /\ IsPress(last_event')
    /\ last_event'.code = "Backspace"
    /\ ~last_event'.ctrl /\ ~last_event'.alt

\* the step that handles the press of a word-delete combination in Editing mode
WordDeleteKeyStep ==
    /\ pc = "poll"
    /\ input_mode = "Editing"
    /\ IsPress(last_event')
    /\ \/ last_event'.code = "Char" /\ last_event'.ch = CharH /\ last_event'.ctrl
       \/ last_event'.code = "Char" /\ last_event'.ch = CharW /\ last_event'.ctrl
       \/ last_event'.code = "Backspace" /\ last_event'.ctrl
       \/ last_event'.code = "Backspace" /\ last_event'.alt

\* a text whose words are separated by single spaces: the only whitespace is
\* ' ', it does not begin the text and no two of them are adjacent
SingleSpaced(in) ==
    /\ \A i \in 1..Len(in) : IsWhitespace(in[i]) => in[i] = CharSpace
    /\ in # <<>> => in[1] # CharSpace
    /\ \A i \in 1..(Len(in) - 1) : ~(in[i] = CharSpace /\ in[i + 1] = CharSpace)

\* the index at which the last word of a text begins, 0 if it has no word
LastWordStart(in) ==
    LET starts == {i \in 1..Len(in) :
                      /\ in[i] # CharSpace
                      /\ i = 1 \/ in[i - 1] = CharSpace}
    IN  IF starts = {} THEN 0
        ELSE CHOOSE i \in starts : \A j \in starts : j <= i

\* the expected text of as many characters as the input
ExpectedText(str, n) == [i \in 1..n |-> ExpectedChar(str, i - 1)]

\* a fraction num/den of the value v, computed without a division by zero
IsValue(q, v) == q.den # 0 /\ q.num = v * q.den

\* the step that computes the remaining time and draws the frame
DrawStep == pc = "loop" /\ pc' = "poll"

\* the state before the first frame of the session is drawn
BeforeFirstFrame == pc = "loop" /\ now = 0 /\ last_event = NoEvent

\* the step that handles, in Normal mode, an event that is not the press of
\* `s` or of `q`
OtherKeyInNormalStep ==
    /\ pc = "poll"
    /\ input_mode = "Normal"
    /\ last_event' # NoEvent
    /\ ~(IsPress(last_event') /\ last_event'.code = "Char"
            /\ last_event'.ch \in {CharS, CharQ})

\* a dictionary file that is empty or holds nothing but whitespace
BlankDictionary ==
    /\ dictionary.kind = "file"
    /\ \A i \in 1..Len(dictionary.text) : IsWhitespace(dictionary.text[i])

\* the step of ExpectedInput::new that runs replace_words_with_numbers
NumbersStep == boot_pc = "numbers" /\ flags.numbers

\* the step of ExpectedInput::new that runs create_uppercase_words to its end
UppercaseStep == boot_pc = "uppercase" /\ flags.uppercase /\ boot_pc' = "symbols"

\* the step of ExpectedInput::new that runs replace_words_with_symbols to its end
SymbolsStep == boot_pc = "symbols" /\ flags.symbols /\ boot_pc' = "join"

IsDigits(word) == \A k \in 1..Len(word) : word[k] \in 48..57

ZeroStats(st) ==
    /\ st.wpm.num = 0
    /\ st.raw_accuracy.num = 0
    /\ st.accuracy.num = 0
    /\ st.raw_valid_characters_count = 0
    /\ st.raw_mistakes_count = 0
    /\ st.raw_typed_characters_count = 0
    /\ st.valid_characters_count = 0
    /\ st.mistakes_count = 0
    /\ st.typed_characters_count = 0

\* C1: in Editing mode, a pressed printable character c is appended to the input
\* and exactly one raw counter grows by one: the valid one if c is the character
\* at character index k of the expected text, k the number of characters of the
\* input before the press, the mistakes one otherwise -- also when the input
\* holds multi-byte characters.
C1_CharClassifiedByCharIndex ==
    [][CharKeyStep =>
        LET c == last_event'.ch
            k == CharsCount(input)
        IN  /\ input' = Append(input, c)
            /\ IF c = ExpectedChar(corpus, k)
               THEN /\ raw_valid_characters_count' = raw_valid_characters_count + 1
                    /\ raw_mistakes_count' = raw_mistakes_count
               ELSE /\ raw_mistakes_count' = raw_mistakes_count + 1
                    /\ raw_valid_characters_count' = raw_valid_characters_count]_vars

\* C2: at the top of the loop in Editing mode with the test started, once the
\* time spent running has reached the duration, the iteration returns the
\* results of a completed test, with the statistics of the current input and raw
\* counters, whatever the last poll returned.
C2_TimeoutFinishes ==
    [][(pc = "loop" /\ input_mode = "Editing" /\ is_started
            /\ running_time >= duration) =>
        /\ pc' = "returned"
        /\ result'.completed
        /\ result'.duration = duration
        /\ result'.stats.typed_characters_count = CharsCount(input)
        /\ result'.stats.raw_valid_characters_count = raw_valid_characters_count
        /\ result'.stats.raw_mistakes_count = raw_mistakes_count
        /\ result'.stats.raw_typed_characters_count =
               raw_valid_characters_count + raw_mistakes_count
        /\ input' = input]_vars

\* a test that finished on a poll that returned no event, with characters typed
C2_Witness ==
    /\ Finished
    /\ last_event = NoEvent
    /\ input # <<>>
    /\ duration >= 1

\* C3: the running clock excludes the pauses: while the test runs, the time
\* elapsed since start_time is the time spent in Editing mode, and a finished
\* test has spent at least the duration in Editing mode, however long it was
\* paused.
C3_RunningClockExcludesPauses ==
    /\ input_mode = "Editing" => elapsed(start_time) = running_time
    /\ Finished => running_time >= duration

\* a test that finished after two seconds of pause
C3_Witness ==
    /\ Finished
    /\ paused_time >= 2
    /\ duration >= 1
    /\ now >= running_time + paused_time

\* C4: no step lowers a raw counter; the only step that changes one is the press
\* of a printable character in Editing mode, which raises their sum by one.
C4_RawCountersMonotonic ==
    [][/\ raw_valid_characters_count' >= raw_valid_characters_count
       /\ raw_mistakes_count' >= raw_mistakes_count
       /\ (raw_valid_characters_count' # raw_valid_characters_count
              \/ raw_mistakes_count' # raw_mistakes_count) => CharKeyStep
       /\ CharKeyStep =>
              raw_valid_characters_count' + raw_mistakes_count'
                  = raw_valid_characters_count + raw_mistakes_count + 1]_vars

\* both kinds of keystroke counted and then everything deleted
C4_Witness ==
    /\ raw_valid_characters_count >= 1
    /\ raw_mistakes_count >= 1
    /\ input = <<>>
    /\ last_event \in Events
    /\ last_event.code = "Backspace"

\* C5: `q` pressed in Normal mode returns the results of a cancelled test:
\* completed is false and every statistic is zero, before the first start and
\* after a pause in the middle of a test.
C5_QuitCancelsWithZeroStats ==
    [][QuitKeyStep =>
        /\ pc' = "returned"
        /\ ~result'.completed
        /\ ZeroStats(result'.stats)]_vars

\* a test cancelled in a pause, after characters were typed
C5_Witness ==
    /\ Cancelled
    /\ is_started
    /\ input # <<>>
    /\ raw_valid_characters_count + raw_mistakes_count >= 1

\* C6: a resume (`s` in Normal mode of a started test) finds the input and the
\* raw counters as Esc left them, and is_started stays true.
C6_PauseResumePreserves ==
    [][(input_mode = "Normal" /\ is_started /\ input_mode' = "Editing") =>
        /\ input' = at_pause.input
        /\ raw_valid_characters_count' = at_pause.raw_valid
        /\ raw_mistakes_count' = at_pause.raw_mistakes
        /\ is_started']_vars

\* a test just resumed after a pause that lasted, with characters typed before it
C6_Witness ==
    /\ pc = "loop"
    /\ input_mode = "Editing"
    /\ paused_time >= 1
    /\ IsPress(last_event) /\ last_event.code = "Char" /\ last_event.ch = CharS
    /\ input # <<>>
    /\ input[Len(input)] # CharS
    /\ raw_valid_characters_count >= 1

\* C7: get_string(n) has exactly n characters, for n = 0, n beyond the corpus and
\* corpora with multi-byte characters.
C7_GetStringLength ==
    gs_len >= 0 =>
        /\ CharsCount(gs_out) = gs_len
        /\ CharsCount(gs_out2) = gs_len2

\* n = 0 and n at least three times a corpus that has a multi-byte character
C7_Witness ==
    /\ gs_len = 0
    /\ gs_len2 >= 3 * (Len(corpus) + 1)
    /\ \E i \in 1..Len(corpus) : Utf8Len(corpus[i]) > 1
    /\ CharsCount(gs_out2) = gs_len2

\* C8: the character at index i of get_string(n) is the character at index
\* i mod (L + 1) of the corpus followed by one space, for all i < n.
C8_GetStringRepeatsPaddedCorpus ==
    gs_len >= 0 =>
        /\ CharsCount(gs_out2) = gs_len2
        /\ \A i \in 1..gs_len2 : gs_out2[i] = ExpectedChar(corpus, i - 1)

\* a corpus of three characters asked for eleven: "q s q s q s"
C8_Witness ==
    /\ corpus = <<CharQ, CharSpace, CharS>>
    /\ gs_len2 = 11
    /\ gs_out2 = <<CharQ, CharSpace, CharS, CharSpace, CharQ, CharSpace, CharS,
                   CharSpace, CharQ, CharSpace, CharS>>

\* C9: for n <= m, get_string(n) is the first n characters of get_string(m).
C9_GetStringPrefix ==
    gs_len >= 0 =>
        /\ gs_len <= gs_len2
        /\ gs_out = SubSeq(gs_out2, 1, gs_len)

\* n inside the first copy of the corpus, m in a later copy
C9_Witness ==
    /\ 0 < gs_len
    /\ gs_len <= Len(corpus)
    /\ gs_len2 > 2 * (Len(corpus) + 1)
    /\ gs_out = SubSeq(gs_out2, 1, gs_len)

\* C10: the already_typed slice of the layout has as many characters as the
\* input, for every width >= 1 and every input.
C10_AlreadyTypedLength ==
    frame_width >= 1 => CharsCount(layout.already_typed) = CharsCount(input)

\* C11: for typed length t and width w >= 1 the layout requests
\* (t div w + 2) * w characters, current_line_rest has w - (t mod w)
\* characters, following_lines has w characters, and the three slices put
\* together are the requested text.
C11_LayoutSlices ==
    frame_width >= 1 =>
        LET t == CharsCount(input)
            w == frame_width
        IN  /\ layout.requested = ((t \div w) + 2) * w
            /\ CharsCount(layout.current_line_rest) = w - (t % w)
            /\ CharsCount(layout.following_lines) = w
            /\ layout.already_typed \o layout.current_line_rest
                    \o layout.following_lines
               = layout.expected_input_str


\* C12: in Editing mode, Backspace without a modifier removes the last
\* character of the input, all the bytes of it, and does nothing to an empty
\* input; the raw counters, the mode, is_started, the two time anchors and the
\* remaining time stay as they are.
C12_BackspaceRemovesLastChar ==
    [][BackspaceKeyStep =>
        /\ IF input = <<>>
           THEN input' = <<>>
           ELSE /\ input = Append(input', input[Len(input)])
                /\ ByteLen(input') = ByteLen(input) - Utf8Len(input[Len(input)])
        /\ UNCHANGED <<raw_valid_characters_count, raw_mistakes_count, input_mode,
                       is_started, start_time, pause_time, time_left,
                       running_time>>]_vars

\* two characters were pressed, Backspace has removed the second and left the
\* two-byte first one whole
C12_Witness ==
    /\ last_event = KeyPress("Backspace", 0, FALSE, FALSE)
    /\ chars_processed = 2
    /\ raw_valid_characters_count + raw_mistakes_count = 2
    /\ input = <<CharBen>>


\* C13: in Editing mode, ctrl+h, ctrl+w, ctrl+Backspace or alt+Backspace on an
\* input whose words are separated by single spaces leaves the input without
\* its last word: what stood before that word, which ends in exactly one space
\* if a word remains and is empty otherwise; the raw counters are unchanged.
C13_WordDeleteRemovesLastWord ==
    [][(WordDeleteKeyStep /\ SingleSpaced(input)) =>
        LET k == LastWordStart(input)
        IN  /\ input' = IF k = 0 THEN <<>> ELSE SubSeq(input, 1, k - 1)
            /\ Len(input') <= Len(input)
            /\ IF k > 1
               THEN /\ input'[Len(input')] = CharSpace
                    /\ input'[Len(input') - 1] # CharSpace
                    /\ split_whitespace(input')
                         = SubSeq(split_whitespace(input), 1,
                                  Len(split_whitespace(input)) - 1)
               ELSE input' = <<>>
            /\ UNCHANGED <<raw_valid_characters_count, raw_mistakes_count>>]_vars

\* "s s" was typed against the corpus "q s" and ctrl+w has left "s "
C13_Witness ==
    /\ corpus = <<CharQ, CharSpace, CharS>>
    /\ last_event = KeyPress("Char", CharW, TRUE, FALSE)
    /\ chars_processed = 3
    /\ raw_valid_characters_count = 2
    /\ raw_mistakes_count = 1
    /\ input = <<CharS, CharSpace>>


\* C14: in the results of a completed test, typed_characters_count is the
\* number of characters of the final input, mistakes_count the number of
\* positions at which the input differs from the expected text, and
\* valid_characters_count their difference, so that valid + mistakes = typed.
C14_FinalCounts ==
    Finished =>
        LET st == result.stats
            wrong == {i \in 1..Len(input) : input[i] # ExpectedChar(corpus, i - 1)}
        IN  /\ st.typed_characters_count = Len(input)
            /\ st.mistakes_count = Cardinality(wrong)
            /\ st.valid_characters_count = st.typed_characters_count - st.mistakes_count
            /\ st.valid_characters_count + st.mistakes_count = st.typed_characters_count
            /\ st.valid_characters_count >= 0

\* three characters were pressed and one deleted; of the two that remain the
\* two-byte one is right and the other is wrong
C14_Witness ==
    /\ Finished
    /\ corpus = <<CharBen, CharS>>
    /\ input = <<CharBen, CharSpace>>
    /\ chars_processed = 3
    /\ result.stats.typed_characters_count = 2
    /\ result.stats.mistakes_count = 1
    /\ result.stats.valid_characters_count = 1


\* C15 as stated: if the final input equals the expected text of its length,
\* mistakes_count is 0 and accuracy is 100; if the final input is empty,
\* accuracy is 0 and nothing is divided by zero.
C15_AccuracyAsStated ==
    Finished =>
        /\ input = ExpectedText(corpus, Len(input)) =>
               /\ result.stats.mistakes_count = 0
               /\ IsValue(result.stats.accuracy, 100)
        /\ input = <<>> => IsValue(result.stats.accuracy, 0)

\* C15 amended: if the final input is not empty and equals the expected text
\* of its length, mistakes_count is 0 and accuracy is 100; if the final input
\* is empty, mistakes_count is 0, accuracy is 0 and nothing is divided by zero.
C15_AccuracyOfExactInput ==
    Finished =>
        /\ (input # <<>> /\ input = ExpectedText(corpus, Len(input))) =>
               /\ result.stats.mistakes_count = 0
               /\ IsValue(result.stats.accuracy, 100)
        /\ input = <<>> =>
               /\ result.stats.typed_characters_count = 0
               /\ result.stats.mistakes_count = 0
               /\ IsValue(result.stats.accuracy, 0)

\* three characters were pressed, the last deleted, and the two that remain
\* are the expected ones
C15_Witness ==
    /\ Finished
    /\ corpus = <<CharBen, CharS>>
    /\ input = <<CharBen, CharS>>
    /\ chars_processed = 3
    /\ result.stats.mistakes_count = 0
    /\ result.stats.accuracy = [num |-> 200, den |-> 2]


C17_RawTotals ==
    Finished =>
        LET st == result.stats
        IN  /\ st.raw_valid_characters_count = raw_valid_characters_count
            /\ st.raw_mistakes_count = raw_mistakes_count
            /\ st.raw_typed_characters_count
                   = st.raw_valid_characters_count + st.raw_mistakes_count
            /\ st.raw_typed_characters_count = chars_processed
            /\ st.raw_accuracy.den # 0
            /\ IF chars_processed = 0
               THEN st.raw_accuracy.num = 0
               ELSE st.raw_accuracy.num * chars_processed
                       = (100 * st.raw_valid_characters_count) * st.raw_accuracy.den

\* two characters were pressed, around a pause of at least a second, and at
\* most one of them is left in the final input
C17_Witness ==
    /\ Finished
    /\ paused_time >= 1
    /\ chars_processed = 2
    /\ Len(input) < 2
    /\ result.stats.raw_typed_characters_count = 2
    /\ result.stats.raw_valid_characters_count = 1


\* C18: the remaining time shown by a frame is the duration minus the time
\* spent in Editing mode so far, or zero if that is negative: it is the
\* duration before the first start, the same in all the frames of one pause,
\* never more than in the frame before, and never negative.
C18_TimeLeft ==
    [][DrawStep =>
        /\ time_left' = (IF duration >= running_time
                         THEN duration - running_time ELSE 0)
        /\ ~is_started => time_left' = duration
        /\ (input_mode = "Normal" /\ is_started
                /\ ~(IsPress(last_event) /\ last_event.code = "Esc"))
               => time_left' = time_left
        /\ ~BeforeFirstFrame => time_left' <= time_left
        /\ time_left' >= 0]_vars

\* a frame of a resumed test: the pause of at least a second has taken nothing
\* from the remaining time
C18_Witness ==
    /\ pc = "poll"
    /\ input_mode = "Editing"
    /\ paused_time >= 1
    /\ running_time = 0
    /\ now >= 1
    /\ duration = 1
    /\ time_left = 1


\* C19: in Normal mode, before the start or in a pause, an event other than
\* the press of `s` or `q` (another character, Backspace, a word-delete
\* combination, Esc, Enter) leaves the mode, the input, is_started, the two
\* raw counters, start_time and pause_time as they are, and the loop goes on.
C19_OtherKeysIgnoredInNormal ==
    [][OtherKeyInNormalStep =>
        /\ UNCHANGED <<input_mode, input, is_started, raw_valid_characters_count,
                       raw_mistakes_count, start_time, pause_time>>
        /\ pc' = "loop"]_vars

\* Backspace pressed in a pause that began after a second of typing: the input
\* is as it was when the pause began
C19_Witness ==
    /\ pc = "loop"
    /\ input_mode = "Normal"
    /\ is_started
    /\ last_event = KeyPress("Backspace", 0, FALSE, FALSE)
    /\ input # <<>>
    /\ at_pause # NoSnapshot
    /\ at_pause.input = input
    /\ pause_time >= 1


\* C20: run returns the results of a cancelled test only on `q` pressed in
\* Normal mode.  In Editing mode `q` and `s` are characters like the others:
\* appended to the input, counted by one raw counter, and the test neither
\* ends nor starts again; no event read in Editing mode makes run return, and
\* Esc is the only one that changes the mode.
C20_QuitOnlyWhenPaused ==
    [][/\ (pc # "returned" /\ pc' = "returned" /\ ~result'.completed)
            => QuitKeyStep
       /\ (CharKeyStep /\ last_event'.ch \in {CharQ, CharS})
            => /\ input' = Append(input, last_event'.ch)
               /\ raw_valid_characters_count' + raw_mistakes_count'
                      = raw_valid_characters_count + raw_mistakes_count + 1
               /\ UNCHANGED <<input_mode, is_started, start_time, pause_time,
                              result>>
       /\ (pc = "poll" /\ input_mode = "Editing") => pc' # "returned"
       /\ (input_mode = "Editing" /\ input_mode' # "Editing")
            => /\ pc = "poll"
               /\ IsPress(last_event')
               /\ last_event'.code = "Esc"]_vars

\* `q` then `s` were pressed in Editing mode and the test goes on with both in
\* the input
C20_Witness ==
    /\ pc = "loop"
    /\ input_mode = "Editing"
    /\ is_started
    /\ last_event = KeyPress("Char", CharS, FALSE, FALSE)
    /\ input = <<CharQ, CharS>>
    /\ chars_processed = 2
    /\ result = NoResult


\* C21: run returns the results of a completed test only from the top of the
\* loop in Editing mode with the test started and the time up; in Normal mode
\* no step does, however long the pause lasts and even if the time was up when
\* the pause began, so that such a test is completed only after a resume.
C21_NoFinishWhilePaused ==
    [][/\ (pc # "returned" /\ pc' = "returned" /\ result'.completed)
            => /\ pc = "loop"
               /\ input_mode = "Editing"
               /\ is_started
               /\ running_time >= duration
       /\ input_mode = "Normal" => ~(pc' = "returned" /\ result'.completed)
       /\ (pc' = "returned" /\ result'.completed) => input_mode' = "Editing"]_vars

\* a pause that began when the time was up and has lasted a second: the test is
\* still not completed
C21_Witness ==
    /\ pc = "poll"
    /\ input_mode = "Normal"
    /\ is_started
    /\ duration >= 1
    /\ running_time >= duration
    /\ paused_time >= 1
    /\ result = NoResult


C23_UnreadableDictionaryStopsStartup ==
    dictionary.kind \in {"missing", "unreadable"} =>
        /\ boot_pc \in {"new", "exit"}
        /\ boot_pc = "exit" => new_result.kind = "Err"
        /\ ~terminal_entered
        /\ ~runner_created
        /\ ~is_started /\ input = <<>> /\ pc = "loop"

\* main has stopped on a dictionary file that opens but cannot be read
C23_Witness ==
    /\ dictionary.kind = "unreadable"
    /\ boot_pc = "exit"
    /\ new_result = Err("Unable to read dictionary file")
    /\ ~terminal_entered


\* C24: a dictionary file that is empty or holds only whitespace gives an
\* empty corpus, and construction fails on it with an error before any session
\* starts: ExpectedInput::new never returns an empty corpus and no Runner is
\* created over one.
C24_EmptyCorpusRejected ==
    /\ BlankDictionary =>
           /\ new_result.kind # "Ok"
           /\ ~terminal_entered
           /\ ~runner_created
    /\ new_result.kind = "Ok" => new_result.str # <<>>
    /\ runner_created => corpus # <<>>


\* C25: given a readable dictionary, ExpectedInput::new succeeds for every
\* combination of the numbers, uppercase and symbols flags and every ratio in
\* [0,1]: it never stops in a panic (an arithmetic underflow or an
\* out-of-range index) and never returns an error.
C25_NewSucceedsOnReadableDictionary ==
    dictionary.kind \in {"builtin", "file"} =>
        /\ new_result.kind \in {"None", "Ok"}
        /\ boot_pc # "exit"


\* C26: number substitution keeps the length of every word counted in
\* characters: each character of a replaced word becomes exactly one decimal
\* digit, also in words with multi-byte characters.
C26_NumbersKeepCharsCount ==
    [][NumbersStep =>
           /\ Len(string_vec') = Len(string_vec)
           /\ \A i \in 1..Len(string_vec) :
                  /\ CharsCount(string_vec'[i]) = CharsCount(string_vec[i])
                  /\ string_vec'[i] # string_vec[i] => IsDigits(string_vec'[i])]_vars


\* C27: replace_words_with_numbers with ratio r on a vector of N words turns
\* the first round(r * N) words of the vector, and no others, into strings of
\* decimal digits only; every other word is left as it was.
C27_FirstWordsBecomeNumbers ==
    [][NumbersStep =>
           LET N == Len(string_vec)
               count == Round(flags.numbers_ratio, N)
           IN  /\ Len(string_vec') = N
               /\ \A i \in 1..N :
                      IF i <= count
                      THEN IsDigits(string_vec'[i])
                      ELSE string_vec'[i] = string_vec[i]]_vars

\* half of a vector of two words has been replaced: the first word is a number
\* and the second is still the word of the dictionary
C27_Witness ==
    /\ boot_pc = "uppercase"
    /\ flags.numbers
    /\ flags.numbers_ratio = [num |-> 1, den |-> 2]
    /\ Len(string_vec) = 2
    /\ string_vec[1] # <<>> /\ IsDigits(string_vec[1])
    /\ string_vec[2] = <<CharEszett, CharS>>


\* a word after the uppercase step as the claim has it: as it was, or with its
\* first character replaced by the uppercase mapping of that character
Capitalized(word) ==
    IF word = <<>> THEN word ELSE to_uppercase(word[1]) \o Tail(word)

\* C28: the uppercase step changes at most the first character of a selected
\* word, to its uppercase mapping, leaves every other character of that word
\* and every non-selected word unchanged, and skips empty words without
\* failing.
C28_UppercaseFirstCharacterOnly ==
    [][(boot_pc = "uppercase" /\ flags.uppercase) =>
           LET N == Len(string_vec)
               pos == words_start_pos
               num_uppercase_words == Round(flags.uppercase_ratio, N - pos)
           IN  /\ Len(string_vec') = N
               /\ \A i \in 1..N :
                      IF pos < i /\ i <= pos + num_uppercase_words
                      THEN string_vec'[i] = Capitalized(string_vec[i])
                      ELSE string_vec'[i] = string_vec[i]
               /\ pos <= N => boot_pc' = "symbols" /\ new_result' = new_result]_vars


\* the words replace_words_with_symbols goes over: the 0-based indices
\* pos .. pos + num_symbols
SelectedForSymbols(i) ==
    /\ words_start_pos < i
    /\ i <= words_start_pos
                + Round(flags.symbols_ratio, Len(string_vec) - words_start_pos)

C30_SymbolsKeepFirstCharacter ==
    [][SymbolsStep =>
           \A i \in 1..Len(string_vec) :
               /\ string_vec[i] # <<>> =>
                      /\ string_vec'[i] # <<>>
                      /\ string_vec'[i][1] = string_vec[i][1]
               /\ CharsCount(string_vec[i]) < 2 => string_vec'[i] = string_vec[i]]_vars

\* the symbols step has gone over every word of a vector with a word of one
\* character and a word of two: the first is as it was, the second has a
\* symbol after its first character
C30_Witness ==
    /\ boot_pc = "join"
    /\ flags.symbols
    /\ flags.symbols_ratio = [num |-> 1, den |-> 1]
    /\ ~flags.numbers /\ ~flags.uppercase
    /\ string_vec = <<<<CharS>>, <<CharEszett, CharAt>>>>


\* C31: the corpus built by ExpectedInput::new has no leading and no trailing
\* whitespace and its words are separated by exactly one space: it never holds
\* two spaces in a row, whatever the dictionary holds (blank lines, a trailing
\* newline).
C31_CorpusSingleSpaced ==
    new_result.kind = "Ok" =>
        LET str == new_result.str
        IN  /\ str # <<>> => ~IsWhitespace(str[1]) /\ ~IsWhitespace(str[Len(str)])
            /\ \A i \in 1..(Len(str) - 1) :
                   ~(str[i] = CharSpace /\ str[i + 1] = CharSpace)


\* C32: the results of a session are shown and written to the results file only
\* when the session ended at its time (completed is true), and written only
\* when save_results is true as well; a session ended by quit is never shown
\* as a result and never saved.
C32_ResultsOnlyOfCompletedTest ==
    outcome.kind = "Exit" =>
        /\ (outcome.rendered \/ outcome.shown \/ outcome.saved) =>
               /\ Finished
               /\ is_started /\ input_mode = "Editing" /\ running_time >= duration
        /\ outcome.saved => save_results
        /\ Cancelled => ~outcome.rendered /\ ~outcome.shown /\ ~outcome.saved
        /\ (Finished /\ save_results /\ outcome.ret = "Ok") =>
               outcome.rendered /\ outcome.saved /\ outcome.shown

\* main has rendered, saved and shown the results of a test that ran to its end
C32_Witness ==
    /\ Finished
    /\ save_results
    /\ outcome = Exit(TRUE, TRUE, TRUE, "Ok")


\* C33: render places the terminal cursor only in Editing mode, at the column
\* area.x + (typed_length mod width) and the row area.y + (typed_length div
\* width) of the input area; in Normal mode set_cursor is never called.
C33_CursorAfterTypedText ==
    frame_width >= 1 =>
        IF input_mode = "Normal"
        THEN layout.cursor = NoCursor
        ELSE /\ ~layout.cursor.hidden
             /\ layout.cursor.x = layout.input_area.x + (CharsCount(input) % frame_width)
             /\ layout.cursor.y = layout.input_area.y + (CharsCount(input) \div frame_width)


\* C39: for every typed length and every terminal size of width 1 or more the
\* layout arithmetic of render does not underflow: the current line index,
\* typed_length div width, stays below the height of the input area, so the
\* height given to the following lines, input_area.height - current_line_index
\* - 1, is never negative in u16 and render does not panic.
C39_FollowingLinesHeight ==
    frame_width >= 1 =>
        /\ ~layout.panic
        /\ layout.current_line_index < layout.input_area.height
        /\ layout.following_height
               = layout.input_area.height - layout.current_line_index - 1


\* the step that handles a press of the given key in Normal mode
NormalKeyStep(ev) ==
    /\ pc = "poll" /\ pc' # "poll"
    /\ input_mode = "Normal"
    /\ last_event' = ev

C35_NoKeyAfterTimeout ==
    [][(is_started /\ running_time >= duration) =>
           /\ Len(input') <= Len(input)
           /\ raw_valid_characters_count' = raw_valid_characters_count
           /\ raw_mistakes_count' = raw_mistakes_count
           /\ chars_processed' = chars_processed]_vars


\* C36: in the results of a completed test valid_characters_count is at most
\* raw_valid_characters_count, whatever characters, backspaces and word
\* deletions were pressed: every character counted as valid in the final input
\* was classified as valid when it was typed.
C36_ValidAtMostRawValid ==
    Finished =>
        result.stats.valid_characters_count <= result.stats.raw_valid_characters_count


\* one sequence is the beginning of the other
IsPrefix(s, t) == Len(s) <= Len(t) /\ SubSeq(t, 1, Len(s)) = s

\* C37: for every input, with leading, trailing or consecutive spaces too, the
\* input after a word deletion is a strict prefix of the input before it when
\* that input was not empty (a word deletion only removes characters from the
\* end and never alters earlier ones), and a word deletion on the empty input
\* leaves it empty.
C37_WordDeleteLeavesPrefix ==
    [][WordDeleteKeyStep =>
           IF input = <<>> THEN input' = <<>>
           ELSE IsPrefix(input', input) /\ Len(input') < Len(input)]_vars

\* C38: in every reachable state of the session the number of characters of
\* the input is at most raw_valid_characters_count + raw_mistakes_count: no
\* operation, the word deletion with the space it pushes included, makes the
\* input longer than the number of characters typed.
C38_InputAtMostTyped ==
    Len(input) <= raw_valid_characters_count + raw_mistakes_count

\* a word deletion has re-joined the words left of a text of three characters
\* and pushed a space after them
C38_Witness ==
    /\ IsPress(last_event) /\ IsWordDelete(last_event)
    /\ pc = "loop"
    /\ input = <<CharS, CharSpace>>
    /\ raw_valid_characters_count + raw_mistakes_count = 3


\* C40: with numbers enabled together with uppercase or symbols,
\* words_start_pos is the index of the first word that was not replaced by
\* digits, so the uppercase and the symbols steps only touch words that are not
\* numbers: a word replaced by digits consists of digits only in the vector
\* the corpus is joined from.
C40_NumbersStayNumbers ==
    (/\ flags.numbers
     /\ flags.uppercase \/ flags.symbols
     /\ boot_pc \in {"uppercase", "symbols", "join", "terminal"}) =>
        LET count == Round(flags.numbers_ratio, Len(string_vec))
        IN  /\ words_start_pos = count
            /\ \A i \in 1..count : IsDigits(string_vec[i])

====
